---- MODULE Spec2Model ----
(***************************************************************************)
(* TeVeo: the comic generation pipeline (App.handleGenerateComic calling   *)
(* generateComicPrompts and generateImageFromPrompt) and the stitching of  *)
(* the downloadable strip (ComicStrip.drawComicForDownload).               *)
(*                                                                         *)
(* Scheduling is the browser's event loop: every action below is one task  *)
(* (a click, the settling of an external request, an image decode) run to  *)
(* its next await, with the React render and effects that follow it.       *)
(***************************************************************************)
EXTENDS Integers, Sequences, FiniteSets, TLC

\* ---------------------------------------------------------------- bounds
MaxRuns == 2
MaxPanels == 4

\* ------------------------------------------------------------- constants
PANEL_WIDTH == 500
PANEL_HEIGHT == 500
CAPTION_HEIGHT == 50
COMIC_PADDING == 20
DEFAULT_PANEL_COUNT == 4

UPLOAD == "UPLOAD"
PREVIEW == "PREVIEW"
COMIC == "COMIC"

Undefined == "undefined"
NoImage == "null"
NoError == <<>>
NoUrl == <<>>
PLACEHOLDER_IMAGE_URL == "https://picsum.photos/500/500"

Images == {"imgA"}
MimeTypes == {"image/png"}

\* ------------------------------------------- the script service's answers
\* The text of a response is a sequence of lexical tokens.  An object token
\* stands for one object literal: full = TRUE has panelNumber, imagePrompt
\* and caption, full = FALSE has panelNumber only.
Tok(t) == [t |-> t, k |-> 0, full |-> FALSE]
Obj(k, full) == [t |-> "obj", k |-> k, full |-> full]
SP == Tok("sp")
LB == Tok("[")
RB == Tok("]")
COMMA == Tok(",")
NULLTOK == Tok("null")
NUM == Tok("num")
STR == Tok("str")
JUNK == Tok("junk")

PromptText == <<"p1", "p2", "p3", "p4", "p5">>
CaptionText == <<"c1", "c2", "c3", "c4", "c5">>

RECURSIVE ArrayBody(_)
ArrayBody(ks) ==
  IF Len(ks) = 0 THEN <<>>
  ELSE IF Len(ks) = 1 THEN <<Obj(ks[1], TRUE)>>
  ELSE <<Obj(ks[1], TRUE), COMMA>> \o ArrayBody(Tail(ks))

ArrayText(ks) == <<LB>> \o ArrayBody(ks) \o <<RB>>

ResponseTexts ==
  { <<>>, <<SP>>, <<JUNK>>, <<LB, Obj(1, TRUE), COMMA, RB>>,
    <<NULLTOK>>, <<NUM>>, <<Obj(1, TRUE)>>,
    <<LB, RB>>, <<LB, NULLTOK, RB>>, <<LB, Obj(1, FALSE), RB>>,
    ArrayText(<<2, 1>>), <<SP, LB, SP>> \o ArrayBody(<<1, 2>>) \o <<RB, SP>> }

NoResponse == [kind |-> "none", hasText |-> FALSE, text |-> <<>>]

TextResponses ==
  {[kind |-> "reject", hasText |-> FALSE, text |-> <<>>],
   [kind |-> "response", hasText |-> FALSE, text |-> <<>>]}
  \cup {[kind |-> "response", hasText |-> TRUE, text |-> t] : t \in ResponseTexts}

\* ------------------------------------------------------------ JSON values
Elem(kind, k, p, c) == [kind |-> kind, panelNumber |-> k, imagePrompt |-> p, caption |-> c]
Scalar(kind) == Elem(kind, 0, Undefined, Undefined)
Value(kind, items) == [kind |-> kind, items |-> items]

ElemOf(tok) ==
  IF tok.t = "obj"
  THEN IF tok.full THEN Elem("object", tok.k, PromptText[tok.k], CaptionText[tok.k])
       ELSE Elem("object", tok.k, Undefined, Undefined)
  ELSE IF tok.t = "null" THEN Scalar("null")
  ELSE IF tok.t = "num" THEN Scalar("number")
  ELSE Scalar("string")

IsValueTok(tok) == tok.t \in {"obj", "null", "num", "str"}

\* String.prototype.trim: drop leading and trailing white space
RECURSIVE TrimLeft(_)
TrimLeft(s) == IF Len(s) > 0 /\ s[1] = SP THEN TrimLeft(Tail(s)) ELSE s

RECURSIVE TrimRight(_)
TrimRight(s) ==
  IF Len(s) > 0 /\ s[Len(s)] = SP THEN TrimRight(SubSeq(s, 1, Len(s) - 1)) ELSE s

Trim(s) == TrimRight(TrimLeft(s))

\* JSON.parse on texts whose arrays are not nested: white space between
\* tokens is skipped, a value is a scalar, an object or an array of values
\* separated by commas; anything else is a SyntaxError.
NoSpace(s) == SelectSeq(s, LAMBDA tok : tok # SP)

ItemsOk(b) ==
  \/ Len(b) = 0
  \/ /\ Len(b) % 2 = 1
     /\ \A j \in 1..Len(b) : IF j % 2 = 1 THEN IsValueTok(b[j]) ELSE b[j] = COMMA

ItemsOf(b) == [j \in 1..((Len(b) + 1) \div 2) |-> ElemOf(b[2 * j - 1])]

SyntaxError == [ok |-> FALSE, value |-> Value("none", <<>>)]

JSONParse(text) ==
  LET s == NoSpace(text) IN
  IF Len(s) = 0 THEN SyntaxError
  ELSE IF Len(s) = 1 /\ IsValueTok(s[1])
  THEN [ok |-> TRUE,
        value |-> IF s[1].t = "str"
                  THEN Value("string", <<Scalar("string"), Scalar("string")>>)
                  ELSE Value(ElemOf(s[1]).kind, <<>>)]
  ELSE IF Len(s) >= 2 /\ s[1] = LB /\ s[Len(s)] = RB /\ ItemsOk(SubSeq(s, 2, Len(s) - 1))
  THEN [ok |-> TRUE, value |-> Value("array", ItemsOf(SubSeq(s, 2, Len(s) - 1)))]
  ELSE SyntaxError

\* ---------------------------------------------------- generateComicPrompts
MsgNoKey == "API_KEY environment variable is not set."
MsgPromptsFailed == "Failed to generate comic prompts"
MsgEmpty == "Empty response or no text content from Gemini API for comic prompts."
MsgSyntax == "SyntaxError"
MsgTransport == "transport failure"
MsgImageFailed == "Failed to generate image"
MsgNoImageData == "No image data found in the Gemini API response."
MsgNoPrompts == "El modelo no pudo generar las descripciones para las vinetas del comic."
MsgTypeError == "TypeError"
MsgComicFailed == "Error al generar el comic"
MsgNoUpload == "No hay imagen cargada para generar el comic."

Resolved(v) == [ok |-> TRUE, value |-> v, err |-> <<>>]
Rejected(e) == [ok |-> FALSE, value |-> Value("none", <<>>), err |-> e]

\* the body of generateComicPrompts after the request settles (try/catch)
PromptsResult(resp) ==
  IF resp.kind = "reject" THEN Rejected(<<MsgPromptsFailed, MsgTransport>>)
  ELSE LET jsonStr == IF resp.hasText THEN Trim(resp.text) ELSE <<>> IN
       IF ~resp.hasText \/ Len(jsonStr) = 0
       THEN Rejected(<<MsgPromptsFailed, MsgEmpty>>)
       ELSE LET p == JSONParse(jsonStr) IN
            IF p.ok THEN Resolved(p.value)
            ELSE Rejected(<<MsgPromptsFailed, MsgSyntax>>)

\* the body of generateImageFromPrompt after the request settles
ImageResponses == {"reject", "noImage", "image"}

ImageOf(prompt) ==
  CASE prompt = "p1" -> "img(p1)"
    [] prompt = "p2" -> "img(p2)"
    [] prompt = "p3" -> "img(p3)"
    [] prompt = "p4" -> "img(p4)"
    [] prompt = "p5" -> "img(p5)"
    [] OTHER -> "img(undefined)"

ImageResult(resp, prompt) ==
  IF resp = "reject" THEN [ok |-> FALSE, data |-> "", err |-> <<MsgImageFailed, MsgTransport>>]
  ELSE IF resp = "noImage"
  THEN [ok |-> FALSE, data |-> "", err |-> <<MsgImageFailed, MsgNoImageData>>]
  ELSE [ok |-> TRUE, data |-> ImageOf(prompt), err |-> <<>>]


\* ------------------------------------------------------------------ state
VARIABLES
  view, uploadedImage, uploadedImageMimeType, comicPanels,
  comicDownloadDataUrl, loading, error,   \* App's useState cells
  apiKey,        \* process.env.API_KEY is set
  runs,          \* one record per handleGenerateComic invocation past its guard:
                 \* its position, its locals, and the answer its script request got
  calls,         \* external requests issued and not yet settled
  mounted,       \* canvas of the mounted ComicStrip, 0 when none is mounted
  downloadLink,  \* the mounted ComicStrip's useState cell
  canvases,      \* the hidden canvas elements created so far
  stitches       \* one record per drawComicForDownload invocation past its guards

appVars == <<view, uploadedImage, uploadedImageMimeType, comicPanels,
             comicDownloadDataUrl, loading, error>>
stripVars == <<mounted, downloadLink, canvases, stitches>>
vars == <<appVars, apiKey, runs, calls, stripVars>>

\* (variant: the client is made without looking at the key)
getGenerativeAI_noCheck == TRUE

\* getGenerativeAI returns a client (TRUE) or throws (FALSE)
getGenerativeAI == apiKey

TextCall(r) == [run |-> r, kind |-> "text", idx |-> 0, prompt |-> Undefined]
ImageCall(r, k, prompt) == [run |-> r, kind |-> "image", idx |-> k, prompt |-> prompt]

NewRun(img) ==
  [image |-> img, pc |-> "awaitPrompts", resp |-> NoResponse, items |-> <<>>,
   generatedPanels |-> <<>>, promptFailed |-> FALSE, outcome |-> "none"]

Init ==
  /\ view = UPLOAD
  /\ uploadedImage = NoImage
  /\ uploadedImageMimeType = NoImage
  /\ comicPanels = <<>>
  /\ comicDownloadDataUrl = NoUrl
  /\ loading = FALSE
  /\ error = NoError
  /\ apiKey \in BOOLEAN
  /\ runs = <<>>
  /\ calls = {}
  /\ mounted = 0
  /\ downloadLink = NoUrl
  /\ canvases = <<>>
  /\ stitches = <<>>

\* ------------------------------------------------- ComicStrip: the stitch
\* (variant: one padding per panel instead of one between panels)
TotalWidth_perPanel(numPanels) ==
  numPanels * PANEL_WIDTH + numPanels * COMIC_PADDING + 2 * COMIC_PADDING

TotalWidth(numPanels) ==
  numPanels * PANEL_WIDTH + (numPanels - 1) * COMIC_PADDING + 2 * COMIC_PADDING

TotalHeight == PANEL_HEIGHT + CAPTION_HEIGHT + 2 * COMIC_PADDING

BlankCanvas == [width |-> 300, height |-> 150, ops |-> <<>>]

\* canvas.width/height assignment clears the bitmap; the background fill follows
Resized(numPanels) ==
  [width |-> TotalWidth(numPanels), height |-> TotalHeight, ops |-> <<>>]

NewStitch(cid, panels) ==
  [canvas |-> cid, panels |-> panels, pos |-> 1, currentX |-> COMIC_PADDING,
   pc |-> "decoding"]

\* drawComicForDownload has returned: its locals are gone
Returned(st) == [st EXCEPT !.panels = <<>>, !.pos = 0, !.currentX = 0, !.pc = "done"]

ImgSrc(panel) ==
  IF panel.imageBase64 # "" THEN <<"data:image/png;base64,", panel.imageBase64>>
  ELSE <<PLACEHOLDER_IMAGE_URL>>

MsgLoadFailed == "Error cargando imagen"

\* (variant: onerror draws the box and its label but not the caption)
DrawOp_noCaptionOnError(s, st, loaded) ==
  [op |-> IF loaded THEN "drawImage" ELSE "fallback",
   label |-> IF loaded THEN "" ELSE MsgLoadFailed,
   src |-> ImgSrc(st.panels[st.pos]),
   x |-> st.currentX, y |-> COMIC_PADDING, w |-> PANEL_WIDTH, h |-> PANEL_HEIGHT,
   caption |-> IF loaded THEN st.panels[st.pos].caption ELSE Undefined,
   captionX |-> st.currentX + PANEL_WIDTH \div 2,
   captionY |-> COMIC_PADDING + PANEL_HEIGHT + CAPTION_HEIGHT \div 2 + 10,
   stitch |-> s, pos |-> st.pos, loaded |-> loaded]

\* (variant: onerror draws the caption only, no box and no label)
DrawOp_noFallback(s, st, loaded) ==
  [op |-> IF loaded THEN "drawImage" ELSE "none",
   label |-> "",
   src |-> ImgSrc(st.panels[st.pos]),
   x |-> st.currentX, y |-> COMIC_PADDING, w |-> PANEL_WIDTH, h |-> PANEL_HEIGHT,
   caption |-> st.panels[st.pos].caption,
   captionX |-> st.currentX + PANEL_WIDTH \div 2,
   captionY |-> COMIC_PADDING + PANEL_HEIGHT + CAPTION_HEIGHT \div 2 + 10,
   stitch |-> s, pos |-> st.pos, loaded |-> loaded]

\* what img.onload / img.onerror draw for the panel at st.pos; stitch, pos
\* and loaded record which invocation drew it, for which panel, and whether
\* the image had decoded
DrawOp(s, st, loaded) ==
  [op |-> IF loaded THEN "drawImage" ELSE "fallback",
   label |-> IF loaded THEN "" ELSE MsgLoadFailed,
   src |-> ImgSrc(st.panels[st.pos]),
   x |-> st.currentX, y |-> COMIC_PADDING, w |-> PANEL_WIDTH, h |-> PANEL_HEIGHT,
   caption |-> st.panels[st.pos].caption,
   captionX |-> st.currentX + PANEL_WIDTH \div 2,
   captionY |-> COMIC_PADDING + PANEL_HEIGHT + CAPTION_HEIGHT \div 2 + 10,
   stitch |-> s, pos |-> st.pos, loaded |-> loaded]

\* (variant: onerror forgets to advance)
NextX_loadedOnly(currentX, loaded) ==
  IF loaded THEN currentX + PANEL_WIDTH + COMIC_PADDING ELSE currentX

NextX(currentX, loaded) == currentX + PANEL_WIDTH + COMIC_PADDING

\* A canvas element that is out of the document and that no running stitch
\* holds is unreachable: it is collected.
Collect(cs, sts, cid) ==
  [c \in 1..Len(cs) |->
     IF c # cid /\ \A s \in 1..Len(sts) : ~(sts[s].pc = "decoding" /\ sts[s].canvas = c)
     THEN BlankCanvas ELSE cs[c]]

\* (variant: the effect starts a stitch without resizing the canvas)
Render_noClear(panelsSet) ==
  LET isMounted == view' = COMIC
      newMount == isMounted /\ mounted = 0
      cid == IF ~isMounted THEN 0 ELSE IF newMount THEN Len(canvases) + 1 ELSE mounted
      base == IF newMount THEN Append(canvases, BlankCanvas) ELSE canvases
      effect == /\ isMounted
                /\ newMount \/ panelsSet \/ loading' # loading
                /\ Len(comicPanels') > 0 /\ ~loading'
  IN /\ mounted' = cid
     /\ downloadLink' = IF isMounted /\ ~newMount THEN downloadLink ELSE NoUrl
     /\ IF effect
        THEN /\ canvases' = base
             /\ stitches' = Append(stitches, NewStitch(cid, comicPanels'))
        ELSE /\ canvases' = Collect(base, stitches, cid)
             /\ stitches' = stitches

\* The render that follows a task of App, and ComicStrip's effect.  ComicStrip
\* is mounted while view = COMIC; its canvas element is created with it.  The
\* effect runs after a mount or a change of panels or loading.
Render(panelsSet) ==
  LET isMounted == view' = COMIC
      newMount == isMounted /\ mounted = 0
      cid == IF ~isMounted THEN 0 ELSE IF newMount THEN Len(canvases) + 1 ELSE mounted
      base == IF newMount THEN Append(canvases, BlankCanvas) ELSE canvases
      effect == /\ isMounted
                /\ newMount \/ panelsSet \/ loading' # loading
                /\ Len(comicPanels') > 0 /\ ~loading'
  IN /\ mounted' = cid
     /\ downloadLink' = IF isMounted /\ ~newMount THEN downloadLink ELSE NoUrl
     /\ IF effect
        THEN /\ canvases' = [base EXCEPT ![cid] = Resized(Len(comicPanels'))]
             /\ stitches' = Append(stitches, NewStitch(cid, comicPanels'))
        ELSE /\ canvases' = Collect(base, stitches, cid)
             /\ stitches' = stitches

\* one panel's image settles (onload or onerror) inside drawComicForDownload
StitchDecode(s, loaded) ==
  /\ s \in 1..Len(stitches)
  /\ stitches[s].pc = "decoding"
  /\ LET st == stitches[s]
         drawn == [canvases EXCEPT ![st.canvas].ops = Append(@, DrawOp(s, st, loaded))]
         last == st.pos = Len(st.panels)
         dataUrl == <<drawn[st.canvas]>>
         after == [stitches EXCEPT ![s] =
                     IF last THEN Returned(st)
                     ELSE [st EXCEPT !.currentX = NextX(st.currentX, loaded),
                                     !.pos = st.pos + 1]]
     IN /\ canvases' = Collect(drawn, after, mounted)
        /\ stitches' = after
        /\ downloadLink' = IF last /\ st.canvas = mounted THEN dataUrl ELSE downloadLink
        /\ comicDownloadDataUrl' = IF last THEN dataUrl ELSE comicDownloadDataUrl
  /\ UNCHANGED <<view, uploadedImage, uploadedImageMimeType, comicPanels, loading,
                 error, apiKey, runs, calls, mounted>>

\* ------------------------------------------------------------------- App
handleImageUpload(img, mime) ==
  /\ view = UPLOAD
  /\ uploadedImage' = img
  /\ uploadedImageMimeType' = mime
  /\ view' = PREVIEW
  /\ error' = NoError
  /\ UNCHANGED <<comicPanels, comicDownloadDataUrl, loading, apiKey, runs, calls>>
  /\ Render(FALSE)

\* (variant: the reset forgets the download data URL)
handleNewImage_keepUrl ==
  /\ view \in {PREVIEW, COMIC}
  /\ uploadedImage' = NoImage
  /\ uploadedImageMimeType' = NoImage
  /\ comicPanels' = <<>>
  /\ comicDownloadDataUrl' = comicDownloadDataUrl
  /\ loading' = FALSE
  /\ error' = NoError
  /\ view' = UPLOAD
  /\ UNCHANGED <<apiKey, runs, calls>>
  /\ Render(TRUE)

handleNewImage ==
  /\ view \in {PREVIEW, COMIC}
  /\ uploadedImage' = NoImage
  /\ uploadedImageMimeType' = NoImage
  /\ comicPanels' = <<>>
  /\ comicDownloadDataUrl' = NoUrl
  /\ loading' = FALSE
  /\ error' = NoError
  /\ view' = UPLOAD
  /\ UNCHANGED <<apiKey, runs, calls>>
  /\ Render(TRUE)

WrapError(err) == <<MsgComicFailed>> \o err

\* the handler has returned: its locals are gone
Done(run, outcome) ==
  [run EXCEPT !.pc = "done", !.outcome = outcome, !.resp = NoResponse,
              !.items = <<>>, !.generatedPanels = <<>>]

\* (variant: the error path leaves loading as it is)
Fail_noFinally(r, run, err, rest) ==
  /\ error' = WrapError(err)
  /\ loading' = loading
  /\ runs' = [runs EXCEPT ![r] = Done(run, "error")]
  /\ calls' = rest
  /\ UNCHANGED <<view, uploadedImage, uploadedImageMimeType, comicPanels,
                 comicDownloadDataUrl, apiKey>>
  /\ Render(FALSE)

\* catch + finally of handleGenerateComic
Fail(r, run, err, rest) ==
  /\ error' = WrapError(err)
  /\ loading' = FALSE
  /\ runs' = [runs EXCEPT ![r] = Done(run, "error")]
  /\ calls' = rest
  /\ UNCHANGED <<view, uploadedImage, uploadedImageMimeType, comicPanels,
                 comicDownloadDataUrl, apiKey>>
  /\ Render(FALSE)

\* the end of the try block and finally
Succeed(r, run, rest) ==
  /\ comicPanels' = run.generatedPanels
  /\ view' = COMIC
  /\ loading' = FALSE
  /\ runs' = [runs EXCEPT ![r] = Done(run, "ok")]
  /\ calls' = rest
  /\ UNCHANGED <<uploadedImage, uploadedImageMimeType, comicDownloadDataUrl, error, apiKey>>
  /\ Render(TRUE)

\* (variant: every remaining request is issued at once)
IssuedAt_all(r, items, k) ==
  {ImageCall(r, j, items[j].imagePrompt) : j \in k..Len(items)}

\* the requests the loop issues on reaching entry k
IssuedAt(r, items, k) == {ImageCall(r, k, items[k].imagePrompt)}

\* the for-of loop from entry k on, up to its next await
Loop(r, run, k, rest) ==
  IF k > Len(run.items) THEN Succeed(r, run, rest)
  ELSE IF run.items[k].kind = "null" THEN Fail(r, run, <<MsgTypeError>>, rest)
  ELSE IF ~getGenerativeAI THEN Fail(r, run, <<MsgNoKey>>, rest)
  ELSE /\ calls' = rest \cup IssuedAt(r, run.items, k)
       /\ runs' = [runs EXCEPT ![r] = [run EXCEPT !.pc = "awaitImage"]]
       /\ UNCHANGED <<appVars, apiKey, stripVars>>

\* (variant: a failed script request falls back to a default one-entry script)
ScriptOf_fallback(result) ==
  IF ~result.ok
  THEN [ok |-> TRUE, items |-> <<Elem("object", 1, PromptText[1], CaptionText[1])>>,
        err |-> <<>>]
  ELSE IF result.value.kind = "null"
          \/ (result.value.kind = "array" /\ Len(result.value.items) = 0)
  THEN [ok |-> FALSE, items |-> <<>>, err |-> <<MsgNoPrompts>>]
  ELSE IF result.value.kind \in {"object", "number"}
  THEN [ok |-> FALSE, items |-> <<>>, err |-> <<MsgTypeError>>]
  ELSE [ok |-> TRUE, items |-> result.value.items, err |-> <<>>]

\* the handler's use of the settled generateComicPrompts promise: the guard
\* on an empty script and the start of iteration
ScriptOf(result) ==
  IF ~result.ok THEN [ok |-> FALSE, items |-> <<>>, err |-> result.err]
  ELSE IF result.value.kind = "null"
          \/ (result.value.kind = "array" /\ Len(result.value.items) = 0)
  THEN [ok |-> FALSE, items |-> <<>>, err |-> <<MsgNoPrompts>>]
  ELSE IF result.value.kind \in {"object", "number"}
  THEN [ok |-> FALSE, items |-> <<>>, err |-> <<MsgTypeError>>]
  ELSE [ok |-> TRUE, items |-> result.value.items, err |-> <<>>]

\* the "Generar Comic" button is rendered in the PREVIEW view and takes no
\* click while its loading prop is set
GenerateClickable == view = PREVIEW /\ ~loading

\* (variant: the handler does not look at the upload)
NoUpload_never == FALSE

\* the handler's first test
NoUpload == uploadedImage = NoImage \/ uploadedImageMimeType = NoImage

\* the handler, from its call to its first await or return
GenerateComic ==
  /\ IF NoUpload
     THEN /\ error' = <<MsgNoUpload>>
          /\ UNCHANGED <<view, uploadedImage, uploadedImageMimeType, comicPanels,
                         comicDownloadDataUrl, loading, apiKey, runs, calls, stripVars>>
     ELSE /\ Len(runs) < MaxRuns
          /\ comicPanels' = <<>>
          /\ comicDownloadDataUrl' = NoUrl
          /\ UNCHANGED <<view, uploadedImage, uploadedImageMimeType, apiKey>>
          /\ IF getGenerativeAI
             THEN /\ loading' = TRUE
                  /\ error' = NoError
                  /\ runs' = Append(runs, NewRun(uploadedImage))
                  /\ calls' = calls \cup {TextCall(Len(runs) + 1)}
             ELSE /\ loading' = FALSE
                  /\ error' = WrapError(<<MsgNoKey>>)
                  /\ runs' = Append(runs, [NewRun(uploadedImage) EXCEPT
                                 !.pc = "done", !.outcome = "error",
                                 !.promptFailed = TRUE])
                  /\ calls' = calls
          /\ Render(TRUE)

\* a click on the Generate button
handleGenerateComic ==
  /\ GenerateClickable
  /\ GenerateComic

\* the script request settles: the rest of generateComicPrompts, then the
\* handler up to its next await
PromptsSettle(c, resp) ==
  /\ c \in calls
  /\ c.kind = "text"
  /\ LET r == c.run
         script == ScriptOf(PromptsResult(resp))
         run == [runs[r] EXCEPT !.resp = resp,
                                !.promptFailed = ~PromptsResult(resp).ok,
                                !.items = script.items]
     IN IF script.ok THEN Loop(r, run, 1, calls \ {c})
        ELSE Fail(r, run, script.err, calls \ {c})

\* an illustration request settles: the rest of generateImageFromPrompt,
\* the push, then the loop up to its next await
PanelOf(entry, imageBase64) == [caption |-> entry.caption, imageBase64 |-> imageBase64]

ImageSettle(c, resp) ==
  /\ c \in calls
  /\ c.kind = "image"
  /\ LET r == c.run
         res == ImageResult(resp, c.prompt)
         run == [runs[r] EXCEPT !.generatedPanels =
                    IF res.ok THEN Append(@, PanelOf(runs[r].items[c.idx], res.data)) ELSE @]
     IN IF res.ok THEN Loop(r, run, c.idx + 1, calls \ {c})
        ELSE Fail(r, run, res.err, calls \ {c})

Next ==
  \/ \E img \in Images, mime \in MimeTypes : handleImageUpload(img, mime)
  \/ handleGenerateComic
  \/ handleNewImage
  \/ \E c \in calls, resp \in TextResponses : PromptsSettle(c, resp)
  \/ \E c \in calls, resp \in ImageResponses : ImageSettle(c, resp)
  \/ \E s \in 1..Len(stitches), loaded \in BOOLEAN : StitchDecode(s, loaded)

Spec == Init /\ [][Next]_vars

\* ------------------------------------------- the last panel and the stitch
\* A run whose script has n <= MaxPanels entries, with any panelNumbers, at
\* the await of its last illustration; from there the last request settles
\* and the strip is stitched.
RECURSIVE Seqs(_, _)
Seqs(n, S) ==
  IF n = 0 THEN {<<>>} ELSE {Append(q, x) : q \in Seqs(n - 1, S), x \in S}

Scripts == UNION {Seqs(n, 1..n) : n \in 1..MaxPanels}

ScriptResponse(ks) == [kind |-> "response", hasText |-> TRUE, text |-> ArrayText(ks)]

LastAwait(ks) ==
  LET items == ScriptOf(PromptsResult(ScriptResponse(ks))).items
      n == Len(items)
  IN [NewRun("imgA") EXCEPT
        !.pc = "awaitImage", !.resp = ScriptResponse(ks), !.items = items,
        !.generatedPanels =
            [k \in 1..(n - 1) |-> PanelOf(items[k], ImageOf(items[k].imagePrompt))]]

InitStitch ==
  /\ view = PREVIEW
  /\ uploadedImage = "imgA"
  /\ uploadedImageMimeType = "image/png"
  /\ comicPanels = <<>>
  /\ comicDownloadDataUrl = NoUrl
  /\ loading = TRUE
  /\ error = NoError
  /\ apiKey = TRUE
  /\ \E ks \in Scripts :
        /\ runs = <<LastAwait(ks)>>
        /\ calls = {ImageCall(1, Len(ks), LastAwait(ks).items[Len(ks)].imagePrompt)}
  /\ mounted = 0
  /\ downloadLink = NoUrl
  /\ canvases = <<>>
  /\ stitches = <<>>

NextStitch ==
  \/ \E c \in calls, resp \in ImageResponses : ImageSettle(c, resp)
  \/ \E s \in 1..Len(stitches), loaded \in BOOLEAN : StitchDecode(s, loaded)

SpecStitch == InitStitch /\ [][NextStitch]_vars

\* Two runs over the same image, each at its last await: the second to
\* complete sets the panel list again and the mounted ComicStrip stitches a
\* second time on the same canvas.  The first stitch has returned by then.
Ascending(n) == [k \in 1..n |-> k]

InitRestitch ==
  /\ view = PREVIEW
  /\ uploadedImage = "imgA"
  /\ uploadedImageMimeType = "image/png"
  /\ comicPanels = <<>>
  /\ comicDownloadDataUrl = NoUrl
  /\ loading = TRUE
  /\ error = NoError
  /\ apiKey = TRUE
  /\ \E n1 \in 1..MaxPanels, n2 \in 1..MaxPanels :
        LET run1 == LastAwait(Ascending(n1))
            run2 == LastAwait(Ascending(n2))
        IN /\ runs = <<run1, run2>>
           /\ calls = {ImageCall(1, n1, run1.items[n1].imagePrompt),
                       ImageCall(2, n2, run2.items[n2].imagePrompt)}
  /\ mounted = 0
  /\ downloadLink = NoUrl
  /\ canvases = <<>>
  /\ stitches = <<>>

NextRestitch ==
  \/ /\ \A s \in 1..Len(stitches) : stitches[s].pc = "done"
     /\ \E c \in calls, resp \in ImageResponses : ImageSettle(c, resp)
  \/ \E s \in 1..Len(stitches), loaded \in BOOLEAN : StitchDecode(s, loaded)

SpecRestitch == InitRestitch /\ [][NextRestitch]_vars

\* The app with the handler also called directly while nothing is uploaded
\* (the button that calls it is rendered only with an upload).
InvokedWithoutUpload ==
  /\ uploadedImage = NoImage \/ uploadedImageMimeType = NoImage
  /\ GenerateComic

\* two of the script responses are enough here: a failure and a script
InvokeResponses ==
  {[kind |-> "reject", hasText |-> FALSE, text |-> <<>>],
   [kind |-> "response", hasText |-> TRUE, text |-> ArrayText(<<2, 1>>)]}

NextInvoke ==
  \/ \E img \in Images, mime \in MimeTypes : handleImageUpload(img, mime)
  \/ handleGenerateComic
  \/ InvokedWithoutUpload
  \/ handleNewImage
  \/ \E c \in calls, resp \in InvokeResponses : PromptsSettle(c, resp)
  \/ \E c \in calls, resp \in ImageResponses : ImageSettle(c, resp)
  \/ \E s \in 1..Len(stitches), loaded \in BOOLEAN : StitchDecode(s, loaded)

SpecInvoke == Init /\ [][NextInvoke]_vars

\* ------------------------------------------------------- what is on screen
\* ComicStrip's placeholder list and its returned element: the loading tiles,
\* the resolved panel tiles, the hidden canvas and the download button
loadingPanels == [k \in 1..DEFAULT_PANEL_COUNT |-> 0]

NoStrip ==
  [tiles |-> <<>>, panels |-> <<>>, canvas |-> FALSE, download |-> FALSE,
   downloadEnabled |-> FALSE]

ComicStrip(panels, isLoading, link) ==
  IF isLoading
  THEN [NoStrip EXCEPT !.tiles = [k \in 1..Len(loadingPanels) |-> k]]
  ELSE IF Len(panels) > 0
  THEN [tiles |-> <<>>,
        panels |-> [k \in 1..Len(panels) |->
                      [src |-> ImgSrc(panels[k]), caption |-> panels[k].caption]],
        canvas |-> TRUE, download |-> TRUE, downloadEnabled |-> link # NoUrl]
  ELSE NoStrip

\* App renders ComicStrip in the COMIC view only
AppComicStrip ==
  IF view = COMIC THEN ComicStrip(comicPanels, loading, downloadLink) ELSE NoStrip


\* ----------------------------------------------------------------- claims
RunIds == 1..Len(runs)
ImageCallsOf(cs, r) == {c \in cs : c.run = r /\ c.kind = "image"}
TextCallsOf(cs, r) == {c \in cs : c.run = r /\ c.kind = "text"}

\* C1: within one run the illustration requests are issued one at a time in
\* script order: a run has at most one outstanding, it is the request for the
\* entry right after the panels already collected, and it carries that
\* entry's imagePrompt.
C1_Sequential ==
  \A r \in RunIds :
    /\ Cardinality(ImageCallsOf(calls, r)) <= 1
    /\ \A c \in ImageCallsOf(calls, r) :
         /\ runs[r].pc = "awaitImage"
         /\ c.idx = Len(runs[r].generatedPanels) + 1
         /\ c.idx <= Len(runs[r].items)
         /\ c.prompt = runs[r].items[c.idx].imagePrompt

C1_Witness ==
  \E r \in RunIds : \E c \in ImageCallsOf(calls, r) :
    c.idx = 2 /\ Len(runs[r].generatedPanels) = 1

\* C2: a run invokes the Prompt Generator exactly once, when it starts; no
\* illustration request of the run exists while the script request is
\* outstanding; and when the Prompt Generator fails the run ends in that step
\* with no illustration request issued, the error message set and loading off.
C2_PromptFirst ==
  /\ [](\A r \in RunIds :
          /\ (TextCallsOf(calls, r) # {}) <=> (runs[r].pc = "awaitPrompts")
          /\ runs[r].pc = "awaitPrompts" => ImageCallsOf(calls, r) = {}
          /\ runs[r].promptFailed =>
               /\ runs[r].pc = "done" /\ runs[r].outcome = "error"
               /\ ImageCallsOf(calls, r) = {})
  /\ [][/\ \A c \in calls' \ calls :
             c.kind = "text" => c.run = Len(runs) + 1 /\ Len(runs') = Len(runs) + 1
        /\ Len(runs') > Len(runs) =>
             \/ TextCallsOf(calls', Len(runs')) = {TextCall(Len(runs'))}
             \/ runs'[Len(runs')].promptFailed
        /\ \A r \in 1..Len(runs') :
             (runs'[r].promptFailed /\ (r > Len(runs) \/ ~runs[r].promptFailed)) =>
               /\ Len(error') >= 2
               /\ error'[1] = MsgComicFailed
               /\ error'[2] \in {MsgPromptsFailed, MsgNoKey}
               /\ loading' = FALSE
               /\ ImageCallsOf(calls', r) = {}]_vars

C2_Witness ==
  /\ \E r \in RunIds : runs[r].promptFailed
  /\ error = <<MsgComicFailed, MsgPromptsFailed, MsgSyntax>>

\* C3: when an illustration request of a run fails, the run issues no further
\* request, the panel list held by the app is empty, and an error message is
\* set.
C3_FailureDiscards ==
  [][\A r \in RunIds :
       (runs[r].pc = "awaitImage" /\ runs'[r].outcome = "error") =>
         /\ ImageCallsOf(calls', r) = {}
         /\ runs'[r].pc = "done"
         /\ comicPanels' = <<>>
         /\ Len(error') >= 2 /\ error'[2] = MsgImageFailed]_vars

\* C4: no two illustration requests are outstanding at the same time.
C4_NeverConcurrent ==
  Cardinality({c \in calls : c.kind = "image"}) <= 1

\* C5: when a run completes, the panel list has one panel per script entry,
\* the k-th panel has the k-th entry's caption and the illustration made from
\* its imagePrompt, and the panels are in ascending panelNumber order.
C5_DocumentMatchesScript ==
  [][\A r \in RunIds :
       (runs[r].pc = "awaitImage" /\ runs'[r].outcome = "ok") =>
         LET items == runs[r].items IN
         /\ Len(comicPanels') = Len(items)
         /\ \A k \in 1..Len(items) :
              /\ comicPanels'[k].caption = items[k].caption
              /\ comicPanels'[k].imageBase64 = ImageOf(items[k].imagePrompt)
         /\ \A j, k \in 1..Len(items) :
              j < k => items[j].panelNumber < items[k].panelNumber]_vars

\* the panelNumber of the script entry a caption belongs to
PanelNumberOf(caption) ==
  CHOOSE k \in 1..Len(CaptionText) : CaptionText[k] = caption

\* every draw recorded on a canvas or in an encoded raster
DrawLists ==
  {canvases[c].ops : c \in 1..Len(canvases)}
    \cup {comicDownloadDataUrl[j].ops : j \in 1..Len(comicDownloadDataUrl)}
    \cup {downloadLink[j].ops : j \in 1..Len(downloadLink)}

\* C6: the panels of one stitch are drawn in strictly increasing panelNumber
\* order, whatever order the script listed them in.
C6_DrawOrderByIndex ==
  \A ops \in DrawLists : \A i, j \in 1..Len(ops) :
    (i < j /\ ops[i].stitch = ops[j].stitch
       /\ ops[i].caption # Undefined /\ ops[j].caption # Undefined) =>
      PanelNumberOf(ops[i].caption) < PanelNumberOf(ops[j].caption)

\* C7: a script that generateComicPrompts returned for DEFAULT_PANEL_COUNT
\* panels has that many entries, numbered exactly 1..DEFAULT_PANEL_COUNT.
C7_IndicesExact ==
  \A r \in RunIds :
    runs[r].pc = "awaitImage" =>
      /\ Len(runs[r].items) = DEFAULT_PANEL_COUNT
      /\ {runs[r].items[k].panelNumber : k \in 1..Len(runs[r].items)}
           = 1..DEFAULT_PANEL_COUNT

\* the text is JSON for an array of objects that each have imagePrompt and
\* caption next to panelNumber
MatchesSchema(text) ==
  LET p == JSONParse(text) IN
  /\ p.ok
  /\ p.value.kind = "array"
  /\ \A k \in 1..Len(p.value.items) :
       /\ p.value.items[k].kind = "object"
       /\ p.value.items[k].imagePrompt # Undefined
       /\ p.value.items[k].caption # Undefined

\* C8: a run whose script request was answered with no text, or with text
\* that is not JSON matching the schema, has failed in generateComicPrompts
\* and has issued no illustration request.
C8_RejectsBadScript ==
  \A r \in RunIds :
    (runs[r].resp.kind = "response"
       /\ (~runs[r].resp.hasText \/ ~MatchesSchema(runs[r].resp.text))) =>
      /\ runs[r].promptFailed
      /\ ImageCallsOf(calls, r) = {}

\* C9: a stitch of N panels sizes the canvas to N*W + (N-1)*P + 2*P by
\* H + C + 2*P, which for four panels is 2100 by 590.
C9_CanvasSize ==
  [][Len(stitches') > Len(stitches) =>
       LET st == stitches'[Len(stitches')]
           N == Len(st.panels)
           cv == canvases'[st.canvas]
       IN /\ N >= 1
          /\ cv.width = N * 500 + (N - 1) * 20 + 2 * 20
          /\ cv.height = 500 + 50 + 2 * 20
          /\ N = 4 => (cv.width = 2100 /\ cv.height = 590)]_vars

C9_Witness ==
  \E s \in 1..Len(stitches) :
    /\ stitches[s].pc = "decoding"
    /\ Len(stitches[s].panels) = 4
    /\ canvases[stitches[s].canvas].width = 2100

\* C10: the panel at zero-based position i is drawn at (P + i*(W+P), P) with
\* size W by H, as illustration or as fallback box, whatever happened to the
\* panels before it.
C10_PanelPosition ==
  \A ops \in DrawLists : \A j \in 1..Len(ops) :
    /\ ops[j].x = 20 + (ops[j].pos - 1) * (500 + 20)
    /\ ops[j].y = 20
    /\ ops[j].w = 500
    /\ ops[j].h = 500

C10_Witness ==
  \E ops \in DrawLists : \E i, j \in 1..Len(ops) :
    /\ ops[i].stitch = ops[j].stitch
    /\ ops[i].pos = 1 /\ ops[i].op = "fallback"
    /\ ops[j].pos = 3 /\ ops[j].x = 1060

\* the rasters handed to the download surface
Rasters ==
  {comicDownloadDataUrl[j] : j \in 1..Len(comicDownloadDataUrl)}
    \cup {downloadLink[j] : j \in 1..Len(downloadLink)}

\* C11: when a panel's image fails to decode, the fallback box and its label
\* are drawn at that panel's coordinates, its caption is drawn, and the loop
\* goes on: whatever panels fail, every panel before the awaited one has its
\* slot, and the encoded raster has one slot and one caption per panel.
C11_FallbackKeepsGoing ==
  /\ \A ops \in DrawLists : \A j \in 1..Len(ops) :
       /\ ops[j].pos = j
       /\ j <= Len(comicPanels) /\ ops[j].caption = comicPanels[j].caption
       /\ ~ops[j].loaded =>
            /\ ops[j].op = "fallback" /\ ops[j].label = "Error cargando imagen"
            /\ ops[j].x = 20 + (j - 1) * 520 /\ ops[j].y = 20
            /\ ops[j].w = 500 /\ ops[j].h = 500
  /\ \A s \in 1..Len(stitches) :
       stitches[s].pc = "decoding" =>
         Len(canvases[stitches[s].canvas].ops) = stitches[s].pos - 1
  /\ \A r \in Rasters : Len(r.ops) = Len(comicPanels) /\ Len(r.ops) >= 1

C11_Witness ==
  \E r \in Rasters :
    /\ Len(r.ops) = 3
    /\ ~r.ops[1].loaded /\ r.ops[2].loaded /\ ~r.ops[3].loaded

\* C12 as stated: when an illustration request of a run fails, a strip with
\* one slot per script entry is still stitched.
C12_GenerationFailureKeepsSlots ==
  [][\A r \in RunIds :
       (runs[r].pc = "awaitImage" /\ runs'[r].outcome = "error") =>
         /\ Len(stitches') > Len(stitches)
         /\ Len(stitches'[Len(stitches')].panels) = Len(runs[r].items)]_vars

FailedSlots(r) == {j \in 1..Len(r.ops) : ~r.ops[j].loaded}

\* C12 amended: when exactly one panel's image fails to decode during the
\* stitch, the raster still has N slots at N different places, the failed
\* one is the fallback box, the others are illustrations, and all N captions
\* are drawn where they are drawn when nothing fails.
C12_OneDecodeFailure ==
  \A r \in Rasters :
    Cardinality(FailedSlots(r)) = 1 =>
      /\ Len(r.ops) = Len(comicPanels)
      /\ \A i, j \in 1..Len(r.ops) : i # j => r.ops[i].x # r.ops[j].x
      /\ \A j \in 1..Len(r.ops) :
           /\ r.ops[j].op = IF j \in FailedSlots(r) THEN "fallback" ELSE "drawImage"
           /\ r.ops[j].caption = comicPanels[j].caption
           /\ r.ops[j].captionX = 20 + (j - 1) * 520 + 250
           /\ r.ops[j].captionY = 555

C12_Witness ==
  \E r \in Rasters : Len(r.ops) = 4 /\ FailedSlots(r) = {2}

\* the raster holds exactly the panels of the list, each drawn once, in
\* place, by one stitch
ShowsAll(r, panels) ==
  /\ Len(panels) >= 1
  /\ Len(r.ops) = Len(panels)
  /\ \A j \in 1..Len(r.ops) :
       /\ r.ops[j].pos = j
       /\ r.ops[j].stitch = r.ops[1].stitch
       /\ r.ops[j].caption = panels[j].caption
       /\ r.ops[j].src = ImgSrc(panels[j])

\* C13: a download data URL that is not null encodes a canvas with all N
\* panels of the current panel list: never part of a strip, never panels of
\* another run.
C13_RasterComplete ==
  \A r \in Rasters : ShowsAll(r, comicPanels)

C16_ExclusiveSurface ==
  \A c \in 1..Len(canvases) :
    Cardinality({s \in 1..Len(stitches) :
                   stitches[s].pc = "decoding" /\ stitches[s].canvas = c}) <= 1

\* a run returns in this step
RunEnds ==
  \E r \in RunIds : runs[r].pc # "done" /\ runs'[r].pc = "done"

\* the user resets in this step
ResetStep == view # UPLOAD /\ view' = UPLOAD

C18_StaysCleared ==
  [][(view = UPLOAD /\ uploadedImage' = NoImage) =>
       UNCHANGED <<comicPanels, view, error, loading, comicDownloadDataUrl>>]_vars

\* C19: a run that ends leaves loading false and exactly one outcome: the
\* COMIC view with the complete panel list and no error, or an empty panel
\* list and an error message.
C19_OneOutcome ==
  [][\A r \in 1..Len(runs') :
       (runs'[r].pc = "done" /\ (r > Len(runs) \/ runs[r].pc # "done")) =>
         /\ loading' = FALSE
         /\ \/ /\ runs'[r].outcome = "ok"
               /\ view' = COMIC
               /\ Len(comicPanels') = Len(runs[r].items)
               /\ error' = NoError
            \/ /\ runs'[r].outcome = "error"
               /\ comicPanels' = <<>>
               /\ error' # NoError]_vars

\* C17: right after a reset the uploaded image and mime type are null, the
\* panel list is empty, the download data URL is null, loading is false,
\* error is null and the view is UPLOAD, whatever the state was.
C17_ResetClears ==
  [][ResetStep =>
       /\ uploadedImage' = NoImage
       /\ uploadedImageMimeType' = NoImage
       /\ comicPanels' = <<>>
       /\ comicDownloadDataUrl' = NoUrl
       /\ loading' = FALSE
       /\ error' = NoError
       /\ view' = UPLOAD]_vars

\* a reset has happened after a comic was shown and its raster encoded
C17_Witness ==
  /\ view = UPLOAD /\ Len(runs) >= 1
  /\ \E s \in 1..Len(stitches) : stitches[s].pc = "done"
  /\ uploadedImage = NoImage /\ comicPanels = <<>> /\ comicDownloadDataUrl = NoUrl
  /\ ~loading /\ error = NoError

\* C20: without the credential no script request and no illustration request
\* is ever issued: every run ends in the task that started it, with the
\* configuration error as the message and loading off.
C20_NoCallWithoutKey ==
  /\ [](~apiKey =>
          /\ calls = {}
          /\ \A r \in RunIds : runs[r].pc = "done" /\ runs[r].outcome = "error")
  /\ [][(~apiKey /\ Len(runs') > Len(runs)) =>
          /\ calls' = {}
          /\ error' = <<MsgComicFailed, MsgNoKey>>
          /\ loading' = FALSE]_vars

C20_Witness ==
  /\ ~apiKey
  /\ Len(runs) >= 1
  /\ error = <<MsgComicFailed, MsgNoKey>>

\* the draws made by the stitch that encoded raster r, and what that stitch
\* was given: per slot the panel's image, its caption and the decode outcome
OwnOps(r) ==
  LET own == r.ops[Len(r.ops)].stitch
  IN SelectSeq(r.ops, LAMBDA o : o.stitch = own)

StitchInput(r) ==
  [k \in 1..Len(OwnOps(r)) |->
     <<OwnOps(r)[k].src, OwnOps(r)[k].caption, OwnOps(r)[k].loaded>>]

\* what is on the canvas when it is encoded
Drawn(r) ==
  [width |-> r.width, height |-> r.height,
   ops |-> [k \in 1..Len(r.ops) |->
              [op |-> r.ops[k].op, label |-> r.ops[k].label, src |-> r.ops[k].src,
               x |-> r.ops[k].x, y |-> r.ops[k].y, w |-> r.ops[k].w, h |-> r.ops[k].h,
               caption |-> r.ops[k].caption,
               captionX |-> r.ops[k].captionX, captionY |-> r.ops[k].captionY]]]

\* C15: when a stitch replaces the raster of an earlier stitch, and both were
\* given the same panel list and the same per-panel decode outcomes, the new
\* raster has the same size and the same sequence of draw operations.
C15_Idempotent ==
  [][\A i \in 1..Len(comicDownloadDataUrl), j \in 1..Len(comicDownloadDataUrl') :
       StitchInput(comicDownloadDataUrl[i]) = StitchInput(comicDownloadDataUrl'[j])
         => Drawn(comicDownloadDataUrl[i]) = Drawn(comicDownloadDataUrl'[j])]_vars

\* the second stitch on the canvas has encoded a strip of several panels with
\* a loaded and a failed slot
C15_Witness ==
  /\ Len(stitches) = 2 /\ stitches[1].pc = "done" /\ stitches[2].pc = "done"
  /\ stitches[1].canvas = stitches[2].canvas
  /\ \E j \in 1..Len(comicDownloadDataUrl) :
       LET ops == comicDownloadDataUrl[j].ops
       IN /\ Len(ops) >= 2
          /\ ops[Len(ops)].stitch = 2
          /\ \E a, b \in 1..Len(ops) : ops[a].loaded /\ ~ops[b].loaded

\* C21: while loading is true the screen shows exactly DEFAULT_PANEL_COUNT
\* loading tiles, no resolved panel and no download control.
C21_LoadingTiles ==
  loading =>
    /\ Len(AppComicStrip.tiles) = DEFAULT_PANEL_COUNT
    /\ AppComicStrip.panels = <<>>
    /\ ~AppComicStrip.download

\* C22: with no uploaded image (or no mime type) a call of handleGenerateComic
\* starts no run and issues no script request, loading is false before and
\* after, and the step that sets the no-upload message changes nothing else:
\* the panel list, the download data URL and the view are as before.
C22_NoUploadOnlyError ==
  /\ []((uploadedImage = NoImage \/ uploadedImageMimeType = NoImage) => ~loading)
  /\ [][(uploadedImage = NoImage \/ uploadedImageMimeType = NoImage) =>
          /\ Len(runs') = Len(runs)
          /\ \A c \in calls' \ calls : c.kind # "text"
          /\ ~loading'
          /\ (error' = <<MsgNoUpload>> /\ error # <<MsgNoUpload>>) =>
               UNCHANGED <<view, uploadedImage, uploadedImageMimeType, comicPanels,
                           comicDownloadDataUrl, loading, runs, calls, stripVars>>]_vars

\* the handler has been called with nothing uploaded, after a reset that left
\* a run alive whose panels are on screen
C22_Witness ==
  /\ error = <<MsgNoUpload>>
  /\ uploadedImage = NoImage
  /\ view = COMIC /\ comicPanels # <<>>
  /\ ~loading

====
